---- MODULE Spec2Model ----
(***************************************************************************)
(* A model of the Delaunay fixture loader (src/loader.mjs; the second copy *)
(* in src/unnamed/part_000 has the same code apart from a console.log in   *)
(* dedupePoints and the class name Test).                                  *)
(*                                                                         *)
(* The module holds one state machine per group of operations:             *)
(*   SpecDedupe  dedupePoints                                              *)
(*   SpecExtent  pointsExtent                                              *)
(*   SpecScale   scalePoints (floating-point arithmetic, rounded)          *)
(*   SpecFind    findTest                                                  *)
(*   SpecRecord  the TestFile constructor on a parsed JSON value           *)
(*   SpecLoad    the fixtures directory, collectFiles, loadFile, loadTests *)
(* All of them share the variables fs (the fixtures directory), args (the  *)
(* arguments of the call in progress) and ret (what the call produced).    *)
(***************************************************************************)
EXTENDS Integers, Sequences, FiniteSets, TLC

VARIABLES fs, args, ret

vars == <<fs, args, ret>>

(***************************************************************************)
(* JavaScript values.                                                      *)
(***************************************************************************)

\* A JavaScript number is sign * n / d.  d = 0 with n = 1 is an infinity,
\* d = 0 with n = 0 is NaN, and n = 0 with s = -1 is the negative zero.
\* Finite numbers are kept in lowest terms, so equal numbers are equal
\* records except for the two zeros.
Num(k) == [s |-> IF k < 0 THEN -1 ELSE 1, n |-> IF k < 0 THEN -k ELSE k, d |-> 1]

NegZero == [s |-> -1, n |-> 0, d |-> 1]

Infinity == [s |-> 1, n |-> 1, d |-> 0]

NegInfinity == [s |-> -1, n |-> 1, d |-> 0]

NaN == [s |-> 1, n |-> 0, d |-> 0]

IsNaN(a) == a.n = 0 /\ a.d = 0

IsZero(a) == a.n = 0 /\ a.d # 0

IsFinite(a) == a.d # 0

\* a < b on numbers that are not NaN (the two zeros compare equal).
NumLess(a, b) == a.s * a.n * b.d < b.s * b.n * a.d

\* a === b on numbers.
NumEq(a, b) == ~IsNaN(a) /\ ~IsNaN(b) /\ a.s * a.n * b.d = b.s * b.n * a.d

NumLeq(a, b) == NumLess(a, b) \/ NumEq(a, b)

\* Math.min: NaN if either is NaN, and -0 is below +0.
MathMin(a, b) ==
    IF IsNaN(a) \/ IsNaN(b) THEN NaN
    ELSE IF NumLess(a, b) THEN a
    ELSE IF NumLess(b, a) THEN b
    ELSE IF IsZero(a) /\ b.s = -1 THEN b
    ELSE a

\* Math.max: NaN if either is NaN, and +0 is above -0.
MathMax(a, b) ==
    IF IsNaN(a) \/ IsNaN(b) THEN NaN
    ELSE IF NumLess(b, a) THEN a
    ELSE IF NumLess(a, b) THEN b
    ELSE IF IsZero(a) /\ b.s = 1 THEN b
    ELSE a

Digit(k) == CASE k = 0 -> "0" [] k = 1 -> "1" [] k = 2 -> "2" [] k = 3 -> "3"
              [] k = 4 -> "4" [] k = 5 -> "5" [] k = 6 -> "6" [] k = 7 -> "7"
              [] k = 8 -> "8" [] k = 9 -> "9"

RECURSIVE Digits(_)
\* The decimal digits of a natural number.
Digits(k) == IF k < 10 THEN Digit(k) ELSE Digits(k \div 10) \o Digit(k % 10)

RECURSIVE FracDigits(_, _)
\* The decimal digits of r / d after the point, for 0 <= r < d and d a power
\* of two (the expansion ends).
FracDigits(r, d) ==
    IF r = 0 THEN "" ELSE Digit((10 * r) \div d) \o FracDigits((10 * r) % d, d)

\* Number::toString, as '' + x applies it: both zeros print as "0"; a number
\* with a short exact decimal expansion prints as that expansion.
NumberToString(a) ==
    IF IsNaN(a) THEN "NaN"
    ELSE IF a.d = 0 THEN (IF a.s = -1 THEN "-Infinity" ELSE "Infinity")
    ELSE IF a.n = 0 THEN "0"
    ELSE (IF a.s = -1 THEN "-" ELSE "")
         \o Digits(a.n \div a.d)
         \o (IF a.n % a.d = 0 THEN "" ELSE "." \o FracDigits(a.n % a.d, a.d))

\* undefined, null, and the wrappers of the values a field of a fixture or of
\* a Test Record may hold.
Undefined == [type |-> "undefined"]

Null == [type |-> "null"]

Str(s) == [type |-> "string", v |-> s]

Arr(a) == [type |-> "array", v |-> a]

\* ToBoolean on the values above, as !test.error applies it.
ToBoolean(v) ==
    CASE v.type = "undefined" -> FALSE
      [] v.type = "null" -> FALSE
      [] v.type = "string" -> v.v # ""
      [] v.type = "array" -> TRUE

\* What a call has not produced yet.
Pending == [done |-> FALSE]

\* A call that returned v, and a call that threw.
Returned(v) == [done |-> TRUE, threw |-> FALSE, value |-> v]

Threw(e) == [done |-> TRUE, threw |-> TRUE, error |-> e]

\* The fixtures directory when no operation of a specification reads it.
NoFs == <<>>

(***************************************************************************)
(* Bounds.                                                                 *)
(***************************************************************************)

\* The longest point sequence passed to dedupePoints and pointsExtent.
MaxLen == 3

RECURSIVE SeqsUpTo(_, _)
\* The sequences over S of length at most k.
SeqsUpTo(S, k) ==
    IF k = 0 THEN {<<>>}
    ELSE LET shorter == SeqsUpTo(S, k - 1)
         IN  shorter \cup {Append(q, x) : q \in {r \in shorter : Len(r) = k - 1}, x \in S}

(***************************************************************************)
(* dedupePoints.                                                           *)
(***************************************************************************)

\* The Set key of a point: '' + x + ',' + y.
PointKeyNoSeparator(pnt) == "" \o NumberToString(pnt[1]) \o NumberToString(pnt[2])

PointKey(pnt) == "" \o NumberToString(pnt[1]) \o "," \o NumberToString(pnt[2])

RECURSIVE DedupeLoop(_, _, _, _)
\* The for-of loop of dedupePoints from element i on, with the Set seen and
\* the array ret as the elements before i left them.
DedupeLoop(points, i, seen, out) ==
    IF i > Len(points) THEN out
    ELSE LET pnt == points[i]
             key == PointKey(pnt)
         IN  IF key \in seen
             THEN DedupeLoop(points, i + 1, seen, out)
             ELSE DedupeLoop(points, i + 1, seen \cup {key}, Append(out, pnt))

dedupePoints(points) == DedupeLoop(points, 1, {}, <<>>)

\* The coordinates of the points given to dedupePoints: both zeros, and
\* numbers whose digits run together when printed side by side.
DedupeCoords == {Num(0), NegZero, Num(1), Num(11)}

DedupeInputs == SeqsUpTo(DedupeCoords \X DedupeCoords, MaxLen)

InitDedupe ==
    /\ fs = NoFs
    /\ args \in {[points |-> p] : p \in DedupeInputs}
    /\ ret = Pending

\* A call dedupePoints(args.points).  The call assigns to no element of its
\* argument, so args is what it was.
CallDedupe ==
    /\ ret = Pending
    /\ ret' = Returned(dedupePoints(args.points))
    /\ UNCHANGED <<fs, args>>

NextDedupe == CallDedupe

SpecDedupe == InitDedupe /\ [][NextDedupe]_vars

\* Two points with the same coordinates, as numbers (the two zeros are one
\* coordinate).
SameCoords(p, q) == NumEq(p[1], q[1]) /\ NumEq(p[2], q[2])

\* The positions of P holding the first occurrence of their coordinates.
FirstOccurrences(P) ==
    {i \in 1..Len(P) : \A j \in 1..(i - 1) : ~SameCoords(P[j], P[i])}

\* C6: dedupePoints(P) is a subsequence of P, in P's order, made of the first
\* occurrence of every coordinate pair of P: no two of its elements have the
\* same coordinates, and every coordinate pair of P is the coordinates of
\* one of them.
C6_DedupeKeepsFirstOccurrences ==
    ret.done =>
        LET P == args.points
            R == ret.value
        IN  /\ \E f \in [1..Len(R) -> 1..Len(P)] :
                  /\ \A k \in 1..Len(R) : R[k] = P[f[k]] /\ f[k] \in FirstOccurrences(P)
                  /\ \A k, l \in 1..Len(R) : k < l => f[k] < f[l]
            /\ \A k, l \in 1..Len(R) : k # l => ~SameCoords(R[k], R[l])
            /\ \A i \in 1..Len(P) : \E k \in 1..Len(R) : SameCoords(P[i], R[k])

\* C6 witness: a repeat that is not adjacent to its first occurrence and
\* differs from it in the sign of a zero has been dropped.
C6_Witness ==
    /\ ret.done
    /\ args.points = << <<Num(0), Num(0)>>, <<Num(1), Num(11)>>, <<NegZero, Num(0)>> >>
    /\ ret.value = << <<Num(0), Num(0)>>, <<Num(1), Num(11)>> >>

(***************************************************************************)
(* pointsExtent.                                                           *)
(***************************************************************************)

RECURSIVE ExtentLoopMinOnly(_, _, _)
ExtentLoopMinOnly(points, i, e) ==
    IF i > Len(points) THEN e
    ELSE ExtentLoopMinOnly(points, i + 1,
            [minX |-> MathMin(e.minX, points[i][1]),
             minY |-> MathMin(e.minY, points[i][2]),
             maxX |-> MathMax(e.maxX, points[i][1]),
             maxY |-> MathMin(e.maxY, points[i][2])])

\* pointsExtent with Math.min in the place of the last Math.max.
pointsExtentMinOnly(points) ==
    ExtentLoopMinOnly(points, 1,
        [minX |-> Infinity, minY |-> Infinity, maxX |-> NegInfinity, maxY |-> NegInfinity])

RECURSIVE ExtentLoop(_, _, _)
\* The for-of loop of pointsExtent from element i on, with the four bounds
\* as the elements before i left them.
ExtentLoop(points, i, e) ==
    IF i > Len(points) THEN e
    ELSE ExtentLoop(points, i + 1,
            [minX |-> MathMin(e.minX, points[i][1]),
             minY |-> MathMin(e.minY, points[i][2]),
             maxX |-> MathMax(e.maxX, points[i][1]),
             maxY |-> MathMax(e.maxY, points[i][2])])

pointsExtent(points) ==
    ExtentLoop(points, 1,
        [minX |-> Infinity, minY |-> Infinity, maxX |-> NegInfinity, maxY |-> NegInfinity])

\* The coordinates of the points given to pointsExtent.
ExtentCoords == {Num(-1), NegZero, Num(0), Num(2)}

ExtentInputs == SeqsUpTo(ExtentCoords \X ExtentCoords, MaxLen)

InitExtent ==
    /\ fs = NoFs
    /\ args \in {[points |-> p] : p \in ExtentInputs}
    /\ ret = Pending

\* A call pointsExtent(args.points).
CallExtent ==
    /\ ret = Pending
    /\ ret' = Returned(pointsExtent(args.points))
    /\ UNCHANGED <<fs, args>>

NextExtent == CallExtent

SpecExtent == InitExtent /\ [][NextExtent]_vars

\* C7: for a non-empty P, pointsExtent(P) is the tight bounding box: each
\* bound is on the right side of every point and is the coordinate of one of
\* them; for the empty P it is minX = minY = +Infinity, maxX = maxY = -Infinity.
C7_ExtentIsTightBox ==
    ret.done =>
        LET P == args.points
            e == ret.value
            I == 1..Len(P)
        IN  IF P = <<>>
            THEN e = [minX |-> Infinity, minY |-> Infinity,
                      maxX |-> NegInfinity, maxY |-> NegInfinity]
            ELSE /\ \A i \in I : NumLeq(e.minX, P[i][1]) /\ NumLeq(P[i][1], e.maxX)
                 /\ \A i \in I : NumLeq(e.minY, P[i][2]) /\ NumLeq(P[i][2], e.maxY)
                 /\ \E i \in I : NumEq(P[i][1], e.minX)
                 /\ \E i \in I : NumEq(P[i][1], e.maxX)
                 /\ \E i \in I : NumEq(P[i][2], e.minY)
                 /\ \E i \in I : NumEq(P[i][2], e.maxY)
                 /\ NumLeq(e.minX, e.maxX) /\ NumLeq(e.minY, e.maxY)

\* C7 witness: the four bounds of a three-point sequence come from different
\* points, none of them the first in both coordinates.
C7_Witness ==
    /\ ret.done
    /\ args.points = << <<Num(0), Num(2)>>, <<Num(-1), Num(0)>>, <<Num(2), Num(-1)>> >>
    /\ ret.value = [minX |-> Num(-1), minY |-> Num(-1), maxX |-> Num(2), maxY |-> Num(2)]

\* C7 witness for the empty sequence is part of the same run: the sentinel.
ExtentOfEmptyReached == ret.done /\ args.points = <<>> /\ ret.value.minX = Infinity

(***************************************************************************)
(* findTest.  Names are sequences of characters.                           *)
(***************************************************************************)

\* The longest name of a Test Record and the longest name looked for.
MaxNameLen == 2

\* The longest sequence of Test Records given to findTest.
MaxTests == 2

\* name.startsWith(search).
StringStartsWith(name, search) ==
    Len(search) <= Len(name) /\ SubSeq(name, 1, Len(search)) = search

RECURSIVE StringIndexOf(_, _, _)
\* The first position k >= from (counted from 0) at which search occurs in
\* name, or -1.
StringIndexOf(name, search, from) ==
    IF from + Len(search) > Len(name) THEN -1
    ELSE IF SubSeq(name, from + 1, from + Len(search)) = search THEN from
    ELSE StringIndexOf(name, search, from + 1)

\* name.includes(search).
StringIncludes(name, search) == StringIndexOf(name, search, 0) # -1

RECURSIVE ArrayFind(_, _, _)
\* tests.find(t => t.name.includes(name)) from element k on: the first
\* element the predicate accepts, or undefined.
ArrayFind(tests, name, k) ==
    IF k > Len(tests) THEN Undefined
    ELSE IF StringIncludes(tests[k].name, name) THEN tests[k]
    ELSE ArrayFind(tests, name, k + 1)

findTest(tests, name) == ArrayFind(tests, name, 1)

FindChars == {"a", "/"}

FindNames == SeqsUpTo(FindChars, MaxNameLen)

\* The Test Records given to findTest, which reads their name only.
FindRecords == {[type |-> "record", name |-> n] : n \in FindNames}

InitFind ==
    /\ fs = NoFs
    /\ args \in {[tests |-> t, name |-> n] : t \in SeqsUpTo(FindRecords, MaxTests), n \in FindNames}
    /\ ret = Pending

\* A call findTest(args.tests, args.name).
CallFind ==
    /\ ret = Pending
    /\ ret' = Returned(findTest(args.tests, args.name))
    /\ UNCHANGED <<fs, args>>

NextFind == CallFind

SpecFind == InitFind /\ [][NextFind]_vars

\* name is pre + search + post for some strings pre and post.
Contains(name, search) ==
    \E k \in 0..Len(name) :
        /\ k + Len(search) <= Len(name)
        /\ SubSeq(name, 1, k) \o search \o SubSeq(name, k + Len(search) + 1, Len(name)) = name

\* C9: findTest(tests, s) returns the first record, in sequence order, whose
\* name contains s, and returns undefined, without throwing, exactly when no
\* record's name contains s.
C9_FindTestReturnsFirstMatch ==
    ret.done =>
        LET tests == args.tests
            M == {i \in 1..Len(tests) : Contains(tests[i].name, args.name)}
        IN  /\ ~ret.threw
            /\ (ret.value = Undefined) <=> (M = {})
            /\ M # {} => \E i \in M : /\ \A j \in M : i <= j
                                      /\ ret.value = tests[i]

\* C9 witness: two records contain the string, neither at its start, and the
\* earlier one is returned although it comes after a record that does not.
C9_Witness ==
    /\ ret.done
    /\ args.name = <<"a">>
    /\ Len(args.tests) = 2
    /\ args.tests[1].name = <<"/", "a">>
    /\ args.tests[2].name = <<"a", "a">>
    /\ ret.value = args.tests[1]

\* C9 witness of the not-found value.
C9_NotFoundReached ==
    /\ ret.done
    /\ Len(args.tests) = 2
    /\ args.name = <<"a", "/">>
    /\ ret.value = Undefined

(***************************************************************************)
(* URLs and paths.  A href is written relative to the directory of the     *)
(* module, so that relapath('./files') is the empty href and a fixture     *)
(* a.json in it is "/a.json"; hrefs and paths are sequences of characters. *)
(***************************************************************************)

RECURSIVE UpTo(_, _)
\* The characters of str before the first occurrence of the character c.
UpTo(str, c) ==
    IF str = <<>> \/ Head(str) = c THEN <<>>
    ELSE <<Head(str)>> \o UpTo(Tail(str), c)

\* new URL(str): the path of a URL ends where its fragment begins.
NewURL(str) == [href |-> str, pathname |-> UpTo(str, "#")]

\* relapath('./files'), the fixtures root.
FilesRoot == NewURL(<<>>)

RECURSIVE SplitPath(_, _)
\* The names between the slashes of a path; cur is the name being read.
SplitPath(str, cur) ==
    IF str = <<>> THEN (IF cur = <<>> THEN <<>> ELSE <<cur>>)
    ELSE IF Head(str) = "/"
         THEN (IF cur = <<>> THEN <<>> ELSE <<cur>>) \o SplitPath(Tail(str), <<>>)
         ELSE SplitPath(Tail(str), Append(cur, Head(str)))

\* The file the fs module opens for a URL: the names of its pathname.
FilePath(url) == SplitPath(url.pathname, <<>>)

RECURSIVE JoinPath(_)
JoinPath(names) ==
    IF names = <<>> THEN <<>>
    ELSE IF Len(names) = 1 THEN names[1]
    ELSE names[1] \o <<"/">> \o JoinPath(Tail(names))

\* path.relative(relapath('./files/').pathname, pathname) for a pathname
\* under the fixtures root.
PathRelative(pathname) == JoinPath(SplitPath(pathname, <<>>))

\* str.replace(/\\/g, '/').
ReplaceBackslashes(str) == [i \in 1..Len(str) |-> IF str[i] = "\\" THEN "/" ELSE str[i]]

(***************************************************************************)
(* The TestFile constructor (Test in the second copy).                     *)
(***************************************************************************)

\* The value of a field of a parsed JSON object, undefined if it has none.
Field(obj, f) == IF f \in DOMAIN obj THEN obj[f] ELSE Undefined

\* A destructuring default: field = dflt.
OrDefault(v, dflt) == IF v = Undefined THEN dflt ELSE v

\* The constructor with this.points de-duplicated whatever dedupe is.
TestFileDedupeAlways(json, pth, dedupe) ==
    IF json = Null THEN Threw("TypeError")
    ELSE LET points == Field(json, "points")
         IN  IF points = Undefined THEN Threw("TypeError")
             ELSE Returned([type |-> "record",
                            points |-> Arr(dedupePoints(points.v)),
                            edges |-> Field(json, "edges"),
                            source |-> OrDefault(Field(json, "source"), Null),
                            error |-> OrDefault(Field(json, "error"), Null),
                            name |-> ReplaceBackslashes(PathRelative(pth.pathname)),
                            extent |-> pointsExtent(points.v)])

\* new TestFile(json, pth, dedupe).  Destructuring null throws; a missing
\* points is undefined, which neither dedupePoints nor pointsExtent can
\* iterate; a missing edges is stored as undefined.
TestFile(json, pth, dedupe) ==
    IF json = Null THEN Threw("TypeError")
    ELSE LET points == Field(json, "points")
             edges == Field(json, "edges")
             source == OrDefault(Field(json, "source"), Null)
             error == OrDefault(Field(json, "error"), Null)
         IN  IF points = Undefined THEN Threw("TypeError")
             ELSE Returned([type |-> "record",
                            points |-> IF dedupe THEN Arr(dedupePoints(points.v)) ELSE points,
                            edges |-> edges,
                            source |-> source,
                            error |-> error,
                            name |-> ReplaceBackslashes(PathRelative(pth.pathname)),
                            extent |-> pointsExtent(points.v)])

RecordCoords == {Num(0), Num(1)}

\* The points of a fixture: none, or an array of points.
RecordPoints == {Arr(p) : p \in SeqsUpTo(RecordCoords \X RecordCoords, MaxLen)}

\* The indices an edge of a fixture may hold: the positions of a longest
\* points, and one past them.
EdgeIndices == {Num(k) : k \in 0..MaxLen}

\* The edges of a fixture: none, or an array of no or one pair of indices.
RecordEdges == {Arr(<<>>)} \cup {Arr(<<e>>) : e \in EdgeIndices \X EdgeIndices}

\* The error of a fixture: none, null, the empty string or a message.
FixtureErrors == {Null, Str(""), Str("Edge intersects point")}

FixtureSources == {Str("issue #2")}

\* The parsed JSON object with the given fields, undefined for a field the
\* file does not have.
Object(points, edges, source, error) ==
    LET all == [points |-> points, edges |-> edges, source |-> source, error |-> error]
    IN  [k \in {f \in DOMAIN all : all[f] # Undefined} |-> all[k]]

\* The parsed JSON objects: any subset of the four fields.
RecordObjects ==
    {Object(p, e, s, r) : p \in RecordPoints \cup {Undefined},
                          e \in RecordEdges \cup {Undefined},
                          s \in FixtureSources \cup {Undefined},
                          r \in FixtureErrors \cup {Undefined}}

\* The URL of the fixture the record is built for.
RecordPaths == {NewURL(<<"/", "d", "/", "a">>)}

InitRecord ==
    /\ fs = NoFs
    /\ args \in {[json |-> j, pth |-> u, dedupe |-> d] :
                    j \in RecordObjects \cup {Null}, u \in RecordPaths, d \in BOOLEAN}
    /\ ret = Pending

\* new TestFile(args.json, args.pth, args.dedupe).
CallTestFile ==
    /\ ret = Pending
    /\ ret' = TestFile(args.json, args.pth, args.dedupe)
    /\ UNCHANGED <<fs, args>>

NextRecord == CallTestFile

SpecRecord == InitRecord /\ [][NextRecord]_vars

\* The record built from the arguments with the other value of dedupe.
OtherRecord == TestFile(args.json, args.pth, ~args.dedupe)

\* C5: the extent of a Test Record is pointsExtent of the fixture's points as
\* they are in the file, the same with dedupe true and false, while the
\* record's points are dedupePoints(points) with dedupe true and the
\* fixture's points with dedupe false.
C5_ExtentOfOriginalPoints ==
    (ret.done /\ ~ret.threw) =>
        LET points == args.json["points"]
        IN  /\ ret.value.extent = pointsExtent(points.v)
            /\ ~OtherRecord.threw
            /\ OtherRecord.value.extent = ret.value.extent
            /\ ret.value.points = IF args.dedupe THEN Arr(dedupePoints(points.v)) ELSE points
            /\ OtherRecord.value.points
                   = IF args.dedupe THEN points ELSE Arr(dedupePoints(points.v))

\* C5 witness: the fixture [[0,0],[0,0],[1,1]] built with dedupe true holds
\* two points and the extent of the three.
C5_Witness ==
    /\ ret.done /\ ~ret.threw
    /\ args.dedupe
    /\ args.json["points"] = Arr(<< <<Num(0), Num(0)>>, <<Num(0), Num(0)>>, <<Num(1), Num(1)>> >>)
    /\ ret.value.points = Arr(<< <<Num(0), Num(0)>>, <<Num(1), Num(1)>> >>)
    /\ ret.value.extent = [minX |-> Num(0), minY |-> Num(0), maxX |-> Num(1), maxY |-> Num(1)]

\* The indices of the edges of a fixture are positions of its points.
EdgesValid(json) ==
    /\ "points" \in DOMAIN json /\ "edges" \in DOMAIN json
    /\ \A k \in 1..Len(json["edges"].v) : \A c \in 1..2 :
           json["edges"].v[k][c].n < Len(json["points"].v)

\* C3 (as claimed): in a record built from a fixture whose edge indices are
\* positions of its points, with dedupe true or false, every index of the
\* record's edges is a position of the record's points and designates there
\* the coordinates it designated in the fixture's points.
C3_EdgesReferencePoints ==
    (ret.done /\ ~ret.threw /\ EdgesValid(args.json)) =>
        \A k \in 1..Len(ret.value.edges.v) : \A c \in 1..2 :
            LET i == ret.value.edges.v[k][c].n
            IN  /\ i < Len(ret.value.points.v)
                /\ SameCoords(ret.value.points.v[i + 1], args.json["points"].v[i + 1])

\* C2 (as claimed): the constructor throws, and builds no record, whenever
\* the parsed object lacks points or lacks edges, with dedupe true or false;
\* and it does not throw because of the fixture's error field.
C2_MissingFieldThrows ==
    ret.done =>
        /\ (args.json # Null /\ ({"points", "edges"} \ DOMAIN args.json) # {}) => ret.threw
        /\ (args.json # Null /\ {"points", "edges", "error"} \subseteq DOMAIN args.json)
               => ~ret.threw

\* The part of C2 that holds: a missing points throws, and an error field
\* does not.
MissingPointsThrows ==
    ret.done =>
        /\ (args.json # Null /\ "points" \notin DOMAIN args.json) => ret.threw
        /\ (args.json # Null /\ "points" \in DOMAIN args.json) => ~ret.threw

(***************************************************************************)
(* The fixtures directory, collectFiles, loadFile and loadTests.           *)
(*                                                                         *)
(* fs maps the path of every entry under the fixtures root (the names from *)
(* the root down) to the entry: a directory, a regular file, or an entry   *)
(* of another type (a socket, a dangling symbolic link).  A regular file   *)
(* is readable or not, and its text is given by what JSON.parse makes of   *)
(* it: a value, or a SyntaxError.                                          *)
(***************************************************************************)

\* The most entries under the fixtures root.
MaxNodes == 3

\* The deepest chain of calls of collectFiles before the call stack is full.
MaxStack == 5

\* The names of the entries, in the order readdirSync lists them.
EntryNames == << <<"a">>, <<"a", "#", "1">>, <<"d">> >>

Dir == [kind |-> "dir"]

Other == [kind |-> "other"]

File(readable, parsed) == [kind |-> "file", readable |-> readable, parsed |-> parsed]

LoadPoints == Arr(<< <<Num(0), Num(0)>>, <<Num(0), Num(0)>>, <<Num(1), Num(1)>> >>)

LoadEdges == Arr(<< <<Num(0), Num(2)>> >>)

\* The valid fixtures: points, edges, and any error field.
ValidFixtures ==
    {Object(LoadPoints, LoadEdges, Undefined, r) : r \in FixtureErrors \cup {Undefined}}

\* The regular files: the valid fixtures, a JSON object without points, a
\* text that is no JSON, and a file the process may not read.
Files ==
    {File(TRUE, Returned(o)) : o \in ValidFixtures}
        \cup {File(TRUE, Returned(Object(Undefined, LoadEdges, Undefined, Undefined))),
              File(TRUE, Threw("SyntaxError")),
              File(FALSE, Threw("SyntaxError"))}

Entries == Files \cup {Dir, Other}

RECURSIVE SeqToSet(_)
SeqToSet(q) == IF q = <<>> THEN {} ELSE {Head(q)} \cup SeqToSet(Tail(q))

\* The paths an entry may be made at: its parent is the root or a directory.
FreePaths ==
    {Append(parent, n) : parent \in {<<>>} \cup {q \in DOMAIN fs : fs[q].kind = "dir"},
                         n \in SeqToSet(EntryNames)} \ DOMAIN fs

\* fs.readdirSync(dir, {withFileTypes: true}): the entries of the directory
\* the URL's path names.
ReaddirSync(files, dir) ==
    LET path == FilePath(dir)
    IN  IF path # <<>> /\ path \notin DOMAIN files THEN Threw("ENOENT")
        ELSE IF path # <<>> /\ files[path].kind # "dir" THEN Threw("ENOTDIR")
        ELSE Returned(
               LET present == SelectSeq(EntryNames, LAMBDA n : Append(path, n) \in DOMAIN files)
               IN  [k \in 1..Len(present) |->
                       [name |-> present[k], kind |-> files[Append(path, present[k])].kind]])

\* new URL(dir + '/' + name).
ChildURL(dir, name) == NewURL(dir.href \o <<"/">> \o name)

RECURSIVE collectFiles(_, _, _)
RECURSIVE CollectChildren(_, _, _, _)
\* files.concat(...children): the lists of the directories dirs, in order;
\* the first call that throws ends the walk.
CollectChildren(files, dirs, k, depth) ==
    IF k > Len(dirs) THEN Returned(<<>>)
    ELSE LET first == collectFiles(files, dirs[k], depth)
         IN  IF first.threw THEN first
             ELSE LET rest == CollectChildren(files, dirs, k + 1, depth)
                  IN  IF rest.threw THEN rest ELSE Returned(first.value \o rest.value)

\* collectFiles(dir), depth calls of it deep.
collectFiles(files, dir, depth) ==
    IF depth > MaxStack THEN Threw("RangeError")
    ELSE LET ents == ReaddirSync(files, dir)
         IN  IF ents.threw THEN ents
             ELSE LET isFile == SelectSeq(ents.value, LAMBDA ent : ent.kind = "file")
                      isDirectory == SelectSeq(ents.value, LAMBDA ent : ent.kind = "dir")
                      urls == [k \in 1..Len(isFile) |-> ChildURL(dir, isFile[k].name)]
                      dirs == [k \in 1..Len(isDirectory) |-> ChildURL(dir, isDirectory[k].name)]
                      children == CollectChildren(files, dirs, 1, depth + 1)
                  IN  IF children.threw THEN children
                      ELSE Returned(urls \o children.value)

\* fs.readFileSync(pth, 'utf8') followed by JSON.parse.
ReadAndParse(files, pth) ==
    LET path == FilePath(pth)
    IN  IF path = <<>> THEN Threw("EISDIR")
        ELSE IF path \notin DOMAIN files THEN Threw("ENOENT")
        ELSE IF files[path].kind = "dir" THEN Threw("EISDIR")
        ELSE IF files[path].kind = "other" THEN Threw("ENOENT")
        ELSE IF ~files[path].readable THEN Threw("EACCES")
        ELSE files[path].parsed

\* loadFile that reads nothing it cannot read: a failed read or parse gives
\* a record of an empty fixture.
loadFileSwallowing(files, pth, dedupe) ==
    LET parsed == ReadAndParse(files, pth)
    IN  IF parsed.threw
        THEN TestFile(Object(Arr(<<>>), Arr(<<>>), Undefined, Undefined), pth, dedupe)
        ELSE TestFile(parsed.value, pth, dedupe)

loadFile(files, pth, dedupe) ==
    LET parsed == ReadAndParse(files, pth)
    IN  IF parsed.threw THEN parsed ELSE TestFile(parsed.value, pth, dedupe)

RECURSIVE MapLoadFile(_, _, _, _)
\* urls.map(p => loadFile(p, dedupe)) from element k on.
MapLoadFile(files, urls, k, dedupe) ==
    IF k > Len(urls) THEN Returned(<<>>)
    ELSE LET first == loadFile(files, urls[k], dedupe)
         IN  IF first.threw THEN first
             ELSE LET rest == MapLoadFile(files, urls, k + 1, dedupe)
                  IN  IF rest.threw THEN rest ELSE Returned(<<first.value>> \o rest.value)

loadTests(files, allowErrors, dedupe) ==
    LET urls == collectFiles(files, FilesRoot, 1)
    IN  IF urls.threw THEN urls
        ELSE LET loaded == MapLoadFile(files, urls.value, 1, dedupe)
             IN  IF loaded.threw THEN loaded
                 ELSE Returned(SelectSeq(loaded.value,
                          LAMBDA test : IF allowErrors THEN TRUE ELSE ~ToBoolean(test.error)))

InitLoad ==
    /\ fs = NoFs
    /\ args = [op |-> "none"]
    /\ ret = Pending

\* Between two calls, another process makes an entry under the fixtures root.
MakeEntry ==
    /\ ret = Pending
    /\ Cardinality(DOMAIN fs) < MaxNodes
    /\ \E path \in FreePaths, e \in Entries :
          fs' = [q \in DOMAIN fs \cup {path} |-> IF q = path THEN e ELSE fs[q]]
    /\ UNCHANGED <<args, ret>>

\* Between two calls, another process rewrites a regular file.
WriteFile ==
    /\ ret = Pending
    /\ \E path \in DOMAIN fs, e \in Files :
          /\ fs[path].kind = "file"
          /\ fs[path] # e
          /\ fs' = [fs EXCEPT ![path] = e]
    /\ UNCHANGED <<args, ret>>

\* A call loadTests(allowErrors, dedupe).  The module is synchronous and
\* keeps no state of its own: the call reads fs as it is now.
CallLoadTests ==
    /\ ret = Pending
    /\ \E allowErrors \in BOOLEAN, dedupe \in BOOLEAN :
          /\ args' = [op |-> "loadTests", allowErrors |-> allowErrors, dedupe |-> dedupe]
          /\ ret' = loadTests(fs, allowErrors, dedupe)
    /\ UNCHANGED fs

\* A call loadFile(pth, dedupe) with the URL of an entry.
CallLoadFile ==
    /\ ret = Pending
    /\ \E path \in DOMAIN fs, dedupe \in BOOLEAN :
          LET pth == NewURL(<<"/">> \o JoinPath(path))
          IN  /\ args' = [op |-> "loadFile", pth |-> pth, dedupe |-> dedupe]
              /\ ret' = loadFile(fs, pth, dedupe)
    /\ UNCHANGED fs

\* The caller takes what the call produced.
TakeResult ==
    /\ ret # Pending
    /\ args' = [op |-> "none"]
    /\ ret' = Pending
    /\ UNCHANGED fs

NextLoad == MakeEntry \/ WriteFile \/ CallLoadTests \/ CallLoadFile \/ TakeResult

SpecLoad == InitLoad /\ [][NextLoad]_vars

\* The regular files under the fixtures root.
RegularFiles == {p \in DOMAIN fs : fs[p].kind = "file"}

\* A file whose read or whose parse fails.
FailsToLoad(file) == ~file.readable \/ file.parsed.threw

\* A path none of whose names holds a character that ends the path of a URL.
PlainPath(p) == \A k \in 1..Len(p) : \A c \in 1..Len(p[k]) : p[k][c] # "#"

\* C1 (as claimed): whatever the error field of each fixture is (absent,
\* null, the empty string or a message), loadTests(allowErrors = false)
\* returns no record whose error is not null, and loadTests(allowErrors =
\* true) returns the record of every file, those with an error included.
C1_NoErrorRecordUnlessAllowed ==
    (ret.done /\ args.op = "loadTests" /\ ~ret.threw) =>
        LET all == MapLoadFile(fs, collectFiles(fs, FilesRoot, 1).value, 1, args.dedupe).value
        IN  /\ ~args.allowErrors => \A k \in 1..Len(ret.value) : ret.value[k].error = Null
            /\ args.allowErrors => ret.value = all

\* What holds of loadTests(allowErrors = false): it returns the records
\* whose error is null or the empty string, in order.
FilterKeepsFalsyErrors ==
    (ret.done /\ args.op = "loadTests" /\ ~ret.threw /\ ~args.allowErrors) =>
        LET all == MapLoadFile(fs, collectFiles(fs, FilesRoot, 1).value, 1, args.dedupe).value
        IN  ret.value = SelectSeq(all, LAMBDA t : t.error \in {Null, Str("")})

\* C4: loadTests is all-or-nothing.  If the read or the parse of one of the
\* files the walk found fails, the call throws and returns no list, wherever
\* the file is in the walk, whatever allowErrors is and however many other
\* files load; in particular it throws when a regular file under the root,
\* at a path of plain names, cannot be read or parsed.
C4_LoadTestsAllOrNothing ==
    (ret.done /\ args.op = "loadTests") =>
        LET urls == collectFiles(fs, FilesRoot, 1)
        IN  /\ (~urls.threw /\ \E k \in 1..Len(urls.value) : ReadAndParse(fs, urls.value[k]).threw)
                   => ret.threw
            /\ (\E p \in RegularFiles : PlainPath(p) /\ FailsToLoad(fs[p])) => ret.threw
            /\ ret.threw => "value" \notin DOMAIN ret

\* C4 witness: allowErrors is true, the first file of the walk loads, a file
\* in a directory is no JSON, and the call threw.
C4_Witness ==
    /\ ret.done /\ args.op = "loadTests" /\ args.allowErrors
    /\ DOMAIN fs = {<<<<"a">>>>, <<<<"d">>>>, <<<<"d">>, <<"a">>>>}
    /\ fs[<<<<"a">>>>] \in {File(TRUE, Returned(o)) : o \in ValidFixtures}
    /\ fs[<<<<"d">>, <<"a">>>>] = File(TRUE, Threw("SyntaxError"))
    /\ ret.threw /\ ret.error = "SyntaxError"

\* C10 (as claimed): when every regular file under the fixtures root is a
\* readable, valid fixture, loadTests(allowErrors = true) returns exactly one
\* record per regular file, at any depth, and none for a directory or an
\* entry of another type; the record of a file is built from the contents
\* the file has at the time of the call.
C10_OneRecordPerRegularFile ==
    (/\ ret.done /\ args.op = "loadTests" /\ args.allowErrors
     /\ \A p \in RegularFiles : ~FailsToLoad(fs[p]) /\ fs[p].parsed.value \in ValidFixtures)
        => /\ ~ret.threw
           /\ Len(ret.value) = Cardinality(RegularFiles)
           /\ \A p \in RegularFiles :
                  LET of == {k \in 1..Len(ret.value) : ret.value[k].name = JoinPath(p)}
                  IN  /\ Cardinality(of) = 1
                      /\ \A k \in of :
                             ret.value[k].error
                                 = OrDefault(Field(fs[p].parsed.value, "error"), Null)

\* What holds of C10: the same, when no name under the root holds a "#".
OneRecordPerPlainFile ==
    (\A p \in DOMAIN fs : PlainPath(p)) => C10_OneRecordPerRegularFile

(***************************************************************************)
(* scalePoints.  Its arithmetic is floating-point: every operation gives   *)
(* the exact result rounded to the nearest number with Prec significant    *)
(* bits, ties to even (a double has 53; the exponent range is not bounded  *)
(* here, so nothing overflows or underflows).                              *)
(***************************************************************************)

\* The significant bits of a floating-point number.
Prec == 4

\* The longest point sequence passed to scalePoints.
MaxScaleLen == 2

RECURSIVE GCD(_, _)
GCD(a, b) == IF b = 0 THEN a ELSE GCD(b, a % b)

RECURSIVE Pow2(_)
Pow2(k) == IF k = 0 THEN 1 ELSE 2 * Pow2(k - 1)

\* The number sign * n / d, d > 0, in lowest terms.
Rat(sign, n, d) ==
    IF n = 0 THEN [s |-> sign, n |-> 0, d |-> 1]
    ELSE [s |-> sign, n |-> n \div GCD(n, d), d |-> d \div GCD(n, d)]

Neg(a) == [a EXCEPT !.s = -a.s]

Abs(a) == [a EXCEPT !.s = 1]

\* The exact sum, product and quotient of finite numbers (b # 0 for the
\* quotient).  A sum that is zero is +0 unless both terms are -0.
ExactAdd(a, b) ==
    LET num == a.s * a.n * b.d + b.s * b.n * a.d
    IN  IF num = 0 THEN Rat(IF a.s = -1 /\ b.s = -1 THEN -1 ELSE 1, 0, 1)
        ELSE Rat(IF num < 0 THEN -1 ELSE 1, IF num < 0 THEN -num ELSE num, a.d * b.d)

ExactSub(a, b) == ExactAdd(a, Neg(b))

ExactMul(a, b) == Rat(a.s * b.s, a.n * b.n, a.d * b.d)

ExactDiv(a, b) == Rat(a.s * b.s, a.n * b.d, a.d * b.n)

RECURSIVE RoundLoop(_, _, _, _, _)
\* sign * (n / d) * (down / up) rounded: n / d is scaled by powers of two
\* into [2^(Prec-1), 2^Prec) and rounded to an integer, ties to even.
RoundLoop(sign, n, d, up, down) ==
    IF n < Pow2(Prec - 1) * d THEN RoundLoop(sign, 2 * n, d, 2 * up, down)
    ELSE IF n >= Pow2(Prec) * d THEN RoundLoop(sign, n, 2 * d, up, 2 * down)
    ELSE LET m == n \div d
             r == n % d
             rounded == IF 2 * r > d \/ (2 * r = d /\ m % 2 = 1) THEN m + 1 ELSE m
         IN  Rat(sign, rounded * down, up)

\* A finite number rounded to Prec significant bits.
FlRound(a) == IF a.n = 0 THEN a ELSE RoundLoop(a.s, a.n, a.d, 1, 1)

\* a + b.
FlAdd(a, b) ==
    IF IsNaN(a) \/ IsNaN(b) THEN NaN
    ELSE IF a.d = 0 /\ b.d = 0 THEN (IF a.s = b.s THEN a ELSE NaN)
    ELSE IF a.d = 0 THEN a
    ELSE IF b.d = 0 THEN b
    ELSE FlRound(ExactAdd(a, b))

\* a - b.
FlSub(a, b) == FlAdd(a, Neg(b))

\* a * b.
FlMul(a, b) ==
    IF IsNaN(a) \/ IsNaN(b) THEN NaN
    ELSE IF a.d = 0 \/ b.d = 0
         THEN (IF a.n = 0 \/ b.n = 0 THEN NaN ELSE [s |-> a.s * b.s, n |-> 1, d |-> 0])
    ELSE FlRound(ExactMul(a, b))

\* a / b.
FlDiv(a, b) ==
    IF IsNaN(a) \/ IsNaN(b) THEN NaN
    ELSE IF a.d = 0 THEN (IF b.d = 0 THEN NaN ELSE [s |-> a.s * b.s, n |-> 1, d |-> 0])
    ELSE IF b.d = 0 THEN [s |-> a.s * b.s, n |-> 0, d |-> 1]
    ELSE IF b.n = 0 THEN (IF a.n = 0 THEN NaN ELSE [s |-> a.s * b.s, n |-> 1, d |-> 0])
    ELSE FlRound(ExactDiv(a, b))

\* The scale factor, with Math.max in the place of Math.min.
ScaleFactorMax(points, width, height) ==
    LET bnd == pointsExtent(points)
    IN  MathMax(FlDiv(width, FlSub(bnd.maxX, bnd.minX)),
                FlDiv(height, FlSub(bnd.maxY, bnd.minY)))

\* scale: the smaller of width / curWidth and height / curHeight.
ScaleFactor(points, width, height) ==
    LET bnd == pointsExtent(points)
        curWidth == FlSub(bnd.maxX, bnd.minX)
        curHeight == FlSub(bnd.maxY, bnd.minY)
        scaleX == FlDiv(width, curWidth)
        scaleY == FlDiv(height, curHeight)
    IN  MathMin(scaleX, scaleY)

\* scalePoints(points, width, height, offX = 0, offY = offX); a missing
\* argument is undefined.
scalePoints(points, width, height, offXArg, offYArg) ==
    LET offX == OrDefault(offXArg, Num(0))
        offY == OrDefault(offYArg, offX)
        bnd == pointsExtent(points)
        scale == ScaleFactor(points, width, height)
    IN  [k \in 1..Len(points) |->
            << FlAdd(FlMul(FlSub(points[k][1], bnd.minX), scale), offX),
               FlAdd(FlMul(FlSub(points[k][2], bnd.minY), scale), offY) >>]

ScaleCoords == {Num(0), Num(1), Num(3)}

ScaleSizes == {Num(1), Num(5), Num(13)}

ScaleOffsets == {Undefined, Num(-2), Num(3)}

InitScale ==
    /\ fs = NoFs
    /\ args \in {[points |-> p, width |-> w, height |-> h, offX |-> x, offY |-> y] :
                    p \in SeqsUpTo(ScaleCoords \X ScaleCoords, MaxScaleLen),
                    w \in ScaleSizes, h \in ScaleSizes,
                    x \in ScaleOffsets, y \in ScaleOffsets}
    /\ ret = Pending

\* A call scalePoints(points, width, height, offX, offY).
CallScale ==
    /\ ret = Pending
    /\ ret' = Returned(scalePoints(args.points, args.width, args.height, args.offX, args.offY))
    /\ UNCHANGED <<fs, args>>

NextScale == CallScale

SpecScale == InitScale /\ [][NextScale]_vars

\* The extent of the points has positive width and positive height.
PositiveExtent(points) ==
    /\ points # <<>>
    /\ NumLess(pointsExtent(points).minX, pointsExtent(points).maxX)
    /\ NumLess(pointsExtent(points).minY, pointsExtent(points).maxY)

\* The unit roundoff: the relative error of one rounding is at most this.
Roundoff == Rat(1, 1, Pow2(Prec))

\* |a - b| <= tol, in exact arithmetic.
Within(a, b, tol) == NumLeq(Abs(ExactSub(a, b)), tol)

\* offX + size * (1 + u)^2, and the largest number a sum below it rounds to.
UpperBound(off, size) ==
    LET onePlusU == ExactAdd(Num(1), Roundoff)
        t == ExactAdd(off, ExactMul(size, ExactMul(onePlusU, onePlusU)))
    IN  ExactAdd(t, ExactMul(Roundoff, Abs(t)))

====
